---- MODULE Spec2Model ----
(***************************************************************************)
(* Model of uuidv9.go: the UUIDv9 encoder, the validators isUUID,          *)
(* verifyChecksum, checkVersion and isValidUUIDv9, and the CRC-8 primitive *)
(* calcChecksum.                                                           *)
(*                                                                         *)
(* A Go string is a sequence of one-character strings.  A 64-bit clock     *)
(* reading is kept in two limbs [hi, lo] of value hi * 2^24 + lo, since    *)
(* a millisecond UNIX time does not fit TLC's 32-bit integers.  Clock      *)
(* readings are not negative (no call before 1970).                        *)
(***************************************************************************)
EXTENDS Integers, Sequences, FiniteSets, TLC

VARIABLES now, calls, ticks, last, prev, val

vars == <<now, calls, ticks, last, prev, val>>

---------------------------------------------------------------------------
(* Bounds of the model. *)

\* prefixes of every length 0..MaxPrefixLen are offered to the encoder
MaxPrefixLen == 9
\* the random source answers with one of the byte streams 0..MaxSeed
MaxSeed == 1
\* calls to UUIDv9 in one behaviour
MaxCalls == 2
\* clock steps in one behaviour
MaxTicks == 1

---------------------------------------------------------------------------
(* Characters and Go string helpers. *)

HexDigits == <<"0","1","2","3","4","5","6","7","8","9","a","b","c","d","e","f">>

LowerHex == {HexDigits[i] : i \in 1..16}

UpperHex == {"A","B","C","D","E","F"}

\* s[lo:hi] of Go (0-indexed, hi exclusive)
Slice(s, lo, hi) == SubSeq(s, lo + 1, hi)

\* s[lo:] of Go
SliceFrom(s, lo) == SubSeq(s, lo + 1, Len(s))

\* strings.ToLower on one ASCII character
ToLowerChar(c) ==
  CASE c = "A" -> "a" [] c = "B" -> "b" [] c = "C" -> "c"
    [] c = "D" -> "d" [] c = "E" -> "e" [] c = "F" -> "f"
    [] c = "G" -> "g"
    [] OTHER -> c

\* strings.ToUpper on one ASCII character (used to build candidates)
ToUpperChar(c) ==
  CASE c = "a" -> "A" [] c = "b" -> "B" [] c = "c" -> "C"
    [] c = "d" -> "D" [] c = "e" -> "E" [] c = "f" -> "F"
    [] c = "g" -> "G"
    [] OTHER -> c

ToLower(s) == [i \in 1..Len(s) |-> ToLowerChar(s[i])]

ToUpper(s) == [i \in 1..Len(s) |-> ToUpperChar(s[i])]

\* the class [0-9a-fA-F]
IsHexChar(c) == c \in LowerHex \cup UpperHex

\* the value encoding/hex gives a hex character (either case)
HexValue == [c \in LowerHex \cup UpperHex |-> CHOOSE v \in 0..15 : HexDigits[v + 1] = ToLowerChar(c)]

HexVal(c) == HexValue[c]

\* strings.ReplaceAll(s, "-", "")
StripDashes(s) == SelectSeq(s, LAMBDA c : c # "-")

\* strings.Repeat("0", n)
Zeros(n) == [i \in 1..n |-> "0"]

\* fmt.Sprintf("%0*s", width, s): s left-padded with zeros to width
PadLeftZero(width, s) == IF Len(s) >= width THEN s ELSE Zeros(width - Len(s)) \o s

---------------------------------------------------------------------------
(* Byte arithmetic. *)

RECURSIVE XorBits(_, _, _)
XorBits(a, b, n) ==
  IF n = 0 THEN 0
  ELSE ((a + b) % 2) + 2 * XorBits(a \div 2, b \div 2, n - 1)

XorNibble == [a \in 0..15 |-> [b \in 0..15 |-> XorBits(a, b, 4)]]

\* a ^ b on bytes
Xor8(a, b) == 16 * XorNibble[a \div 16][b \div 16] + XorNibble[a % 16][b % 16]

---------------------------------------------------------------------------
(* calcChecksum: CRC-8, polynomial 0x07, seed 0x00. *)

polynomial == 7

\* one turn of the inner loop: if crc&0x80 != 0 { crc = (crc << 1) ^ polynomial } else { crc <<= 1 }
CrcShiftNoPolynomial(crc) == (crc * 2) % 256

CrcShift(crc) ==
  IF crc >= 128 THEN Xor8((crc * 2) % 256, polynomial) ELSE (crc * 2) % 256

RECURSIVE CrcBits(_, _)
CrcBits(crc, j) == IF j = 8 THEN crc ELSE CrcBits(CrcShift(crc), j + 1)

\* the inner loop for j := 0; j < 8; j++, from every byte value
CrcLoop == [c \in 0..255 |-> CrcBits(c, 0)]

\* hex.Decode: the bytes of an even-length string of hex characters
HexDecodeOk(hexString) ==
  /\ Len(hexString) % 2 = 0
  /\ \A i \in 1..Len(hexString) : IsHexChar(hexString[i])

HexDecode(hexString) ==
  [i \in 1..(Len(hexString) \div 2) |->
     16 * HexVal(hexString[2 * i - 1]) + HexVal(hexString[2 * i])]

RECURSIVE CrcOver(_, _, _)
CrcOver(data, i, crc) ==
  IF i > Len(data) THEN crc
  ELSE CrcOver(data, i + 1, CrcLoop[Xor8(crc, data[i])])

\* fmt.Sprintf("%02x", b)
FormatByte(b) == <<HexDigits[(b \div 16) + 1], HexDigits[(b % 16) + 1]>>

calcChecksum(hexString) ==
  IF ~HexDecodeOk(hexString) THEN <<"0", "0">>
  ELSE FormatByte(CrcOver(HexDecode(hexString), 1, 0))

---------------------------------------------------------------------------
(* Validators. *)

\* (?i)^[0-9a-f]{8}-[0-9a-f]{4}-[0-9a-f]{4}-[0-9a-f]{4}-[0-9a-f]{12}$
DashPositions == {9, 14, 19, 24}

uuidRegexMatch(uuid) ==
  /\ Len(uuid) = 36
  /\ \A i \in 1..36 :
       IF i \in DashPositions THEN uuid[i] = "-" ELSE IsHexChar(uuid[i])

isUUID(uuid) == uuidRegexMatch(uuid)

verifyChecksum(uuid) ==
  /\ uuidRegexMatch(uuid)
  /\ LET cleanUuid == StripDashes(uuid)
     IN  /\ Len(cleanUuid) >= 32
         /\ LET base16String == Slice(cleanUuid, 0, 30)
                calculated == calcChecksum(base16String)
                actual == Slice(uuid, 34, 36)
            IN  calculated = actual

\* fmt.Sprint of a non-negative int
RECURSIVE Sprint(_)
Sprint(n) ==
  IF n < 10 THEN <<HexDigits[n + 1]>> ELSE Sprint(n \div 10) \o <<HexDigits[(n % 10) + 1]>>

VariantChars == {"8", "9", "a", "b", "A", "B"}

\* version is NoVersion (a nil *int) or a number
NoVersion == -1

checkVersion(uuid, version) ==
  LET versionDigit == Slice(uuid, 14, 15)
      variantDigit == Slice(uuid, 19, 20)
  IN  IF version = NoVersion
      THEN \/ versionDigit = <<"9">>
           \/ /\ versionDigit = <<"1">> \/ versionDigit = <<"4">>
              /\ variantDigit[1] \in VariantChars
      ELSE LET versionStr == Sprint(version)
           IN  IF versionDigit = versionStr
               THEN IF versionStr = <<"1">> \/ versionStr = <<"4">>
                    THEN variantDigit[1] \in VariantChars
                    ELSE TRUE
               ELSE FALSE

isValidUUIDv9(uuid, options) ==
  IF ~isUUID(uuid) THEN FALSE
  ELSE IF options.Checksum /\ ~verifyChecksum(uuid) THEN FALSE
  ELSE IF options.Version /\ ~checkVersion(uuid, NoVersion) THEN FALSE
  ELSE TRUE

---------------------------------------------------------------------------
(* Entropy and the clock. *)

\* byte i (from 1) of the stream the random source answers with
RandByte(seed, i) == (167 * seed + 59 * i) % 256

\* one draw of the random source: the byte stream rand.Read fills from, the
\* index rand.Int picks in randomChar, and whether rand.Read succeeds
Entropies ==
  {[seed |-> s, variant |-> v, ok |-> TRUE] : s \in 0..MaxSeed, v \in 0..3}
    \cup {[seed |-> 0, variant |-> 0, ok |-> FALSE]}

\* fmt.Sprintf("%x", bytes) of the first count bytes of the stream
randomBytes(count, seed) ==
  IF count = 0 THEN <<>>
  ELSE [i \in 1..(2 * count) |->
          LET b == RandByte(seed, (i + 1) \div 2)
          IN  IF i % 2 = 1 THEN HexDigits[(b \div 16) + 1] ELSE HexDigits[(b % 16) + 1]]

\* randomChar(chars): chars[index]
randomChar(chars, index) == chars[index + 1]

LimbBase == 2^24

RECURSIVE FormatHex(_)
FormatHex(n) ==
  IF n < 16 THEN <<HexDigits[n + 1]>>
  ELSE FormatHex(n \div 16) \o <<HexDigits[(n % 16) + 1]>>

\* fmt.Sprintf("%x", timeMs) of the 64-bit reading hi * 2^24 + lo
FormatHex64(t) ==
  IF t.hi = 0 THEN FormatHex(t.lo)
  ELSE FormatHex(t.hi) \o PadLeftZero(6, FormatHex(t.lo))

\* t + d on two limbs
AddMs(t, d) ==
  [hi |-> t.hi + d.hi + ((t.lo + d.lo) \div LimbBase), lo |-> (t.lo + d.lo) % LimbBase]

\* t < u
ClockLess(t, u) == t.hi < u.hi \/ (t.hi = u.hi /\ t.lo < u.lo)

---------------------------------------------------------------------------
(* The Timestamp option, an interface{} value: nil, a bool, an int or a    *)
(* time.Time.                                                              *)

TsNil == [type |-> "nil", b |-> FALSE, n |-> 0]
TsBool(b) == [type |-> "bool", b |-> b, n |-> 0]
TsInt(n) == [type |-> "int", b |-> FALSE, n |-> n]
TsTime(n) == [type |-> "time", b |-> FALSE, n |-> n]

\* timestamp == b, an interface value compared with a bool constant
IfaceEqBool(ts, b) == ts.type = "bool" /\ ts.b = b

---------------------------------------------------------------------------
(* The encoder.  Every character of the identifier carries, beside it, the *)
(* place it came from (o): the string is the c's.                          *)

Tag(s, o) == [i \in 1..Len(s) |-> [c |-> s[i], o |-> o]]

Chars(cells) == [i \in 1..Len(cells) |-> cells[i].c]

Origins(cells) == [i \in 1..Len(cells) |-> cells[i].o]

\* ^[0-9a-fA-F]+$
isBase16(str) == Len(str) >= 1 /\ \A i \in 1..Len(str) : IsHexChar(str[i])

validatePrefixOffByOne(prefix) ==
  IF Len(prefix) >= 8 THEN "prefix must be no more than 8 characters"
  ELSE IF ~isBase16(prefix) THEN "prefix must be only hexadecimal characters"
  ELSE "nil"

validatePrefix(prefix) ==
  IF Len(prefix) > 8 THEN "prefix must be no more than 8 characters"
  ELSE IF ~isBase16(prefix) THEN "prefix must be only hexadecimal characters"
  ELSE "nil"

addDashesNoPad(str) ==
  LET s == IF Len(str) > 32 THEN Slice(str, 0, 32) ELSE str
      dash == Tag(<<"-">>, "dash")
  IN  Slice(s, 0, 8) \o dash \o Slice(s, 8, 12) \o dash \o Slice(s, 12, 16)
        \o dash \o Slice(s, 16, 20) \o dash \o SliceFrom(s, 20)

addDashes(str) ==
  LET s == IF Len(str) > 32 THEN Slice(str, 0, 32)
           ELSE IF Len(str) < 32 THEN str \o Tag(Zeros(32 - Len(str)), "pad")
           ELSE str
      dash == Tag(<<"-">>, "dash")
  IN  Slice(s, 0, 8) \o dash \o Slice(s, 8, 12) \o dash \o Slice(s, 12, 16)
        \o dash \o Slice(s, 16, 20) \o dash \o SliceFrom(s, 20)

\* the character at pos replaced by mark: joined[:pos] + mark + joined[pos+1:]
PutAt(joined, pos, mark) ==
  LET padded == IF Len(joined) < pos + 1
                THEN Tag(PadLeftZero(pos + 1, Chars(joined)), "pad")
                ELSE joined
      part1 == Slice(padded, 0, pos)
      part2 == IF Len(padded) > pos THEN SliceFrom(padded, pos + 1) ELSE <<>>
  IN  part1 \o mark \o part2

\* prefix = strings.ToLower(prefix), for a prefix that is not empty
lowerPrefixKept(prefix) == prefix

lowerPrefix(prefix) == IF prefix # <<>> THEN ToLower(prefix) ELSE prefix

\* the checksum of the first 30 undashed digits, written over the last two
\* characters of the dashed identifier
appendChecksumUnstripped(uuidWithoutChecksum) ==
  LET base16String == Slice(Chars(uuidWithoutChecksum), 0, 30)
  IN  Slice(uuidWithoutChecksum, 0, 34) \o Tag(calcChecksum(base16String), "checksum")

appendChecksum(uuidWithoutChecksum) ==
  LET cleanUuid == StripDashes(Chars(uuidWithoutChecksum))
      base16String == Slice(cleanUuid, 0, 30)
  IN  Slice(uuidWithoutChecksum, 0, 34) \o Tag(calcChecksum(base16String), "checksum")

Failure(e) == [id |-> <<>>, err |-> e, center |-> <<>>, origin |-> <<>>]

UUIDv9(options, timeMs, entropy) ==
  LET timestamp == IF options.Timestamp.type = "nil" THEN TsBool(TRUE)
                   ELSE options.Timestamp
      checksum == options.Checksum
      version == options.Version
      legacy == options.Legacy
      prefixErr == IF options.Prefix # <<>> THEN validatePrefix(options.Prefix)
                   ELSE "nil"
  IN
  IF prefixErr # "nil" THEN Failure(prefixErr)
  ELSE
  LET prefix == lowerPrefix(options.Prefix)
      center == IF IfaceEqBool(timestamp, TRUE) THEN FormatHex64(timeMs) ELSE <<>>
      length0 == 32 - Len(prefix) - Len(center)
      length1 == IF checksum THEN length0 - 2 ELSE length0
      length2 == IF legacy THEN length1 - 2
                 ELSE IF version THEN length1 - 1
                 ELSE length1
      length == IF length2 < 0 THEN 0 ELSE length2
  IN
  IF ~entropy.ok THEN Failure("entropy")
  ELSE
  LET suffix == randomBytes(length \div 2, entropy.seed)
      joined == Tag(prefix, "prefix") \o Tag(center, "center") \o Tag(suffix, "random")
      marked ==
        IF legacy
        THEN LET timeChar == IF IfaceEqBool(timestamp, FALSE) THEN "4" ELSE "1"
                 withVersion == PutAt(joined, 12, Tag(<<timeChar>>, "marker"))
                 variant == randomChar(<<"8", "9", "a", "b">>, entropy.variant)
             IN  PutAt(withVersion, 16, Tag(<<variant>>, "variant"))
        ELSE IF version THEN PutAt(joined, 12, Tag(<<"9">>, "marker"))
        ELSE joined
      uuidWithoutChecksum == addDashes(marked)
      result == IF checksum THEN appendChecksum(uuidWithoutChecksum)
                ELSE uuidWithoutChecksum
  IN  [id |-> Chars(result), err |-> "nil", center |-> center, origin |-> Origins(result)]

---------------------------------------------------------------------------
(* Inputs offered to the encoder and the validator. *)

PrefixChars == <<"A", "1", "b", "2", "C", "3", "d", "4", "E", "5", "f">>

\* the first n characters of A1b2C3d4E5f..., any letter case
PrefixOfLen(n) == [i \in 1..n |-> PrefixChars[((i - 1) % Len(PrefixChars)) + 1]]

BadPrefixes == {<<"g">>, <<"a", "-", "1">>, <<"0", "G">>}

Prefixes == {PrefixOfLen(n) : n \in 0..MaxPrefixLen} \cup BadPrefixes

\* an explicit epoch value, in seconds
ExplicitInstants == {1700000000}

Timestamps ==
  {TsNil, TsBool(TRUE), TsBool(FALSE)}
    \cup {TsInt(n) : n \in ExplicitInstants} \cup {TsTime(n) : n \in ExplicitInstants}

UUIDv9Options ==
  [Prefix : Prefixes, Timestamp : Timestamps,
   Checksum : BOOLEAN, Version : BOOLEAN, Legacy : BOOLEAN]

validateUUIDv9Options == [Checksum : BOOLEAN, Version : BOOLEAN]

\* clock readings at the start: 15 ms after the epoch (0xf), 2023-11-14
\* (0x18bcfe56800) and 2026-11-06 (0x1a1b2ffffff, one millisecond before a
\* carry into the high limb); the last two print in 11 hex digits
ClockStarts ==
  {[hi |-> 0, lo |-> 15],
   [hi |-> 101327, lo |-> 15034368],
   [hi |-> 106930, lo |-> 16777215]}

\* the clock moves by 1 ms or by 2^24 ms
TickSteps == {[hi |-> 0, lo |-> 1], [hi |-> 1, lo |-> 0]}

\* strings handed to the validator: the identifier, its upper-case form,
\* the identifier cut short, and the identifier without dashes
Candidates(id) ==
  {id, ToUpper(id), Slice(id, 0, Len(id) - 1), StripDashes(id)}

\* s with the character at 0-indexed position pos replaced by c
ReplaceAt(s, pos, c) == [i \in 1..Len(s) |-> IF i = pos + 1 THEN c ELSE s[i]]

\* dashed position of undashed digit k (both 0-indexed)
DashedPos(k) ==
  k + (IF k >= 8 THEN 1 ELSE 0) + (IF k >= 12 THEN 1 ELSE 0)
    + (IF k >= 16 THEN 1 ELSE 0) + (IF k >= 20 THEN 1 ELSE 0)

---------------------------------------------------------------------------
(* The state machine: a client that reads the clock, calls UUIDv9 and      *)
(* hands strings to the validator.                                         *)

DefaultOptions ==
  [Prefix |-> <<>>, Timestamp |-> TsNil,
   Checksum |-> FALSE, Version |-> FALSE, Legacy |-> FALSE]

NoCall ==
  [opts |-> DefaultOptions, at |-> [hi |-> 0, lo |-> 0],
   id |-> <<>>, err |-> "none", center |-> <<>>, origin |-> <<>>]

NoVal ==
  [done |-> FALSE, cand |-> <<>>, opts |-> [Checksum |-> FALSE, Version |-> FALSE],
   ok |-> FALSE, sum |-> FALSE, corrupted |-> FALSE]

\* the record of one call UUIDv9(opts) made at clock reading t
Call(opts, t, e) ==
  LET r == UUIDv9(opts, t, e)
  IN  [opts |-> opts, at |-> t, id |-> r.id, err |-> r.err,
       center |-> r.center, origin |-> r.origin]

Init ==
  /\ now \in ClockStarts
  /\ calls = 0
  /\ ticks = 0
  /\ last = NoCall
  /\ prev = NoCall
  /\ val = NoVal

\* time passes
Tick ==
  /\ ticks < MaxTicks
  /\ \E d \in TickSteps : now' = AddMs(now, d)
  /\ ticks' = ticks + 1
  /\ UNCHANGED <<calls, last, prev, val>>

\* the first call, with options from optionSet
GenerateFrom(optionSet) ==
  /\ calls = 0
  /\ \E opts \in optionSet, e \in Entropies : last' = Call(opts, now, e)
  /\ calls' = 1
  /\ val' = NoVal
  /\ UNCHANGED <<now, ticks, prev>>

Generate == GenerateFrom(UUIDv9Options)

\* a further call with the options of the call before
Repeat ==
  /\ calls >= 1
  /\ calls < MaxCalls
  /\ \E e \in Entropies : last' = Call(last.opts, now, e)
  /\ prev' = last
  /\ calls' = calls + 1
  /\ val' = NoVal
  /\ UNCHANGED <<now, ticks>>

\* isValidUUIDv9(cand, options) and verifyChecksum(cand)
Check(cand, options, corrupted) ==
  [done |-> TRUE, cand |-> cand, opts |-> options,
   ok |-> isValidUUIDv9(cand, options), sum |-> verifyChecksum(cand),
   corrupted |-> corrupted]

Validate ==
  /\ calls >= 1
  /\ ~val.done
  /\ \E cand \in Candidates(last.id), options \in validateUUIDv9Options :
       val' = Check(cand, options, FALSE)
  /\ UNCHANGED <<now, calls, ticks, last, prev>>

\* one call of the encoder, then the validator on what it returned
Next == Generate \/ Validate

Spec == Init /\ [][Next]_vars

\* calls with the time component enabled, for the ordering of identifiers
TimedOptions ==
  {o \in UUIDv9Options : o.Timestamp \in {TsNil, TsBool(TRUE)} /\ o.Prefix \notin BadPrefixes}

GenerateTimed == GenerateFrom(TimedOptions)

NextOrder == Tick \/ GenerateTimed \/ Repeat

SpecOrder == Init /\ [][NextOrder]_vars

\* identifiers with a checksum, and every change of one of their first 30 digits
ChecksumOptions ==
  {o \in UUIDv9Options :
     /\ o.Checksum
     /\ Len(o.Prefix) \in {0, 8}
     /\ ~o.Version
     /\ o.Timestamp \in {TsNil, TsBool(FALSE)}}

GenerateChecksummed == GenerateFrom(ChecksumOptions)

Corrupt ==
  /\ calls >= 1
  /\ ~val.done
  /\ verifyChecksum(last.id)
  /\ \E k \in 0..29, d \in LowerHex :
       /\ HexVal(d) # HexVal(StripDashes(last.id)[k + 1])
       /\ val' = Check(ReplaceAt(last.id, DashedPos(k), d),
                       [Checksum |-> TRUE, Version |-> FALSE], TRUE)
  /\ UNCHANGED <<now, calls, ticks, last, prev>>

NextCorrupt == GenerateChecksummed \/ Corrupt

SpecCorrupt == Init /\ [][NextCorrupt]_vars

---------------------------------------------------------------------------
(* Vocabulary of the properties. *)

\* the successful call the state records
Produced(c) == c.err = "nil"

\* the 32 digits of an identifier
Digits(id) == StripDashes(id)

\* the places the digits of a produced identifier came from
DigitOrigins(c) == SelectSeq(c.origin, LAMBDA o : o # "dash")

PrefixError(e) ==
  e \in {"prefix must be no more than 8 characters",
         "prefix must be only hexadecimal characters"}

\* the byte of an ASCII character
Ascii(c) ==
  IF c = "-" THEN 45
  ELSE IF c \in UpperHex THEN 55 + HexVal(c)
  ELSE IF HexVal(c) < 10 THEN 48 + HexVal(c)
  ELSE 87 + HexVal(c)

\* a < b on Go strings
StrLess(a, b) ==
  \/ Len(a) < Len(b) /\ a = SubSeq(b, 1, Len(a))
  \/ \E i \in 1..Len(a) :
       /\ i <= Len(b)
       /\ SubSeq(a, 1, i - 1) = SubSeq(b, 1, i - 1)
       /\ Ascii(a[i]) < Ascii(b[i])

\* the validator was run on the identifier of the last call, as returned
ValidatedLast == val.done /\ ~val.corrupted /\ val.cand = last.id

---------------------------------------------------------------------------
(* C1: every identifier UUIDv9 returns passes isValidUUIDv9 with           *)
(* Checksum = config.Checksum and Version = config.Version or              *)
(* config.Legacy; with Checksum=true it passes verifyChecksum, its digits  *)
(* [30,32) being the CRC-8 of its digits [0,30).                           *)
C1_RoundTrip ==
  (Produced(last) /\ ValidatedLast) =>
    /\ (/\ val.opts.Checksum = last.opts.Checksum
        /\ val.opts.Version = (last.opts.Version \/ last.opts.Legacy)) => val.ok
    /\ last.opts.Checksum =>
         /\ val.sum
         /\ Slice(Digits(last.id), 30, 32) = calcChecksum(Slice(Digits(last.id), 0, 30))

C1_Witness ==
  /\ Produced(last) /\ ValidatedLast
  /\ last.opts.Checksum /\ last.opts.Legacy /\ last.opts.Version
  /\ val.opts.Checksum /\ val.opts.Version
  /\ val.ok /\ val.sum

(* C2: every identifier UUIDv9 returns has 36 characters, dashes at        *)
(* positions 8, 13, 18 and 23 and 32 hexadecimal digits elsewhere, and     *)
(* isUUID accepts it.                                                      *)
C2_CanonicalPattern ==
  Produced(last) =>
    /\ Len(last.id) = 36
    /\ \A i \in 0..35 :
         IF i \in {8, 13, 18, 23} THEN last.id[i + 1] = "-"
         ELSE last.id[i + 1] \in LowerHex \cup UpperHex
    /\ Len(Digits(last.id)) = 32
    /\ isUUID(last.id)
    /\ ValidatedLast /\ ~val.opts.Checksum /\ ~val.opts.Version => val.ok

C2_Witness ==
  /\ Produced(last) /\ ValidatedLast
  /\ last.opts.Legacy /\ last.opts.Checksum /\ Len(last.opts.Prefix) = 8
  /\ ~val.opts.Checksum /\ ~val.opts.Version /\ val.ok

(* C3: of two calls with the time component enabled and the same prefix    *)
(* and options, the second at a strictly later clock reading of as many    *)
(* hex digits, the first identifier is strictly smaller than the second.   *)
C3_TimeOrdering ==
  (/\ calls >= 2
   /\ Produced(prev) /\ Produced(last)
   /\ prev.opts = last.opts
   /\ prev.center # <<>> /\ last.center # <<>>
   /\ ClockLess(prev.at, last.at)
   /\ Len(prev.center) = Len(last.center))
    => StrLess(prev.id, last.id)

(* C4: with Legacy=true digit 12 is '1' when the identifier carries a time *)
(* component and '4' when it does not, and digit 16 is one of 8, 9, a, b,  *)
(* also when Version=true; with Version=true and Legacy=false digit 12 is  *)
(* '9'.                                                                    *)
C4_MarkerNibbles ==
  Produced(last) =>
    /\ last.opts.Legacy =>
         /\ Digits(last.id)[13] = (IF last.center # <<>> THEN "1" ELSE "4")
         /\ Digits(last.id)[17] \in {"8", "9", "a", "b"}
    /\ (last.opts.Version /\ ~last.opts.Legacy) => Digits(last.id)[13] = "9"

(* C5: the first len(prefix) digits of every identifier returned are the   *)
(* prefix in lower case, whatever marker or checksum was written.          *)
C5_PrefixKept ==
  Produced(last) =>
    /\ Len(last.opts.Prefix) <= Len(Digits(last.id))
    /\ \A i \in 1..Len(last.opts.Prefix) :
         /\ Digits(last.id)[i] \in LowerHex
         /\ ToUpperChar(Digits(last.id)[i]) = ToUpperChar(last.opts.Prefix[i])
         /\ DigitOrigins(last)[i] = "prefix"

C5_Witness ==
  /\ Produced(last)
  /\ Len(last.opts.Prefix) = 8
  /\ last.opts.Prefix # Slice(Digits(last.id), 0, 8)
  /\ last.opts.Legacy /\ last.opts.Checksum

(* C6: with an explicit instant or integer as Timestamp the identifier     *)
(* has a time component, not empty, derived from the value and placed      *)
(* right after the prefix.                                                 *)
C6_ExplicitTimestamp ==
  (Produced(last) /\ last.opts.Timestamp.type \in {"int", "time"}) =>
    /\ last.center # <<>>
    /\ Slice(Digits(last.id), Len(last.opts.Prefix),
             Len(last.opts.Prefix) + Len(last.center)) = last.center

(* C7: UUIDv9 returns an error and an empty identifier exactly when the    *)
(* prefix is longer than 8 characters or holds a character that is no      *)
(* hexadecimal digit; otherwise it returns an identifier and no error,     *)
(* unless the random source fails.                                         *)
C7_PrefixRejection ==
  calls >= 1 =>
    LET p == last.opts.Prefix
        bad == \/ Len(p) > 8
               \/ \E i \in 1..Len(p) :
                    p[i] \notin {"0", "1", "2", "3", "4", "5", "6", "7", "8", "9",
                                 "a", "b", "c", "d", "e", "f",
                                 "A", "B", "C", "D", "E", "F"}
    IN  /\ bad => (PrefixError(last.err) /\ last.id = <<>>)
        /\ ~bad => /\ last.err \in {"nil", "entropy"}
                   /\ last.err = "nil" => last.id # <<>>

C7_Witness ==
  /\ calls >= 1
  /\ last.err = "prefix must be only hexadecimal characters"
  /\ last.id = <<>>

(* C8: an identifier that passes verifyChecksum fails it once any one of   *)
(* its first 30 digits is replaced by a digit of another value.            *)
C8_CorruptionDetected ==
  (val.done /\ val.corrupted) => (~val.sum /\ ~val.ok)

C8_Witness ==
  /\ val.done /\ val.corrupted
  /\ verifyChecksum(last.id)
  /\ val.cand # last.id
  /\ isUUID(val.cand)
  /\ ~val.sum

(* C9: the checksum check gives the same answer for a candidate, its       *)
(* upper-case form and its lower-case form.                                *)
C9_CaseInsensitiveChecksum ==
  val.done =>
    /\ val.sum = verifyChecksum(ToUpper(val.cand))
    /\ val.sum = verifyChecksum(ToLower(val.cand))
    /\ val.opts.Checksum =>
         /\ val.ok = isValidUUIDv9(ToUpper(val.cand), val.opts)
         /\ val.ok = isValidUUIDv9(ToLower(val.cand), val.opts)

(* C10: every digit of a returned identifier that is not the prefix, the   *)
(* time component, a requested marker or the requested checksum comes      *)
(* from the random source: the zeros addDashes pads with never show.       *)
C10_RandomFill ==
  Produced(last) =>
    \A i \in 1..Len(DigitOrigins(last)) :
      DigitOrigins(last)[i] \in {"prefix", "center", "marker", "variant", "checksum", "random"}

====
